---- MODULE Spec2Model ----
(***************************************************************************)
(* Model of src/main.rs: the PlayState scene (on_start / on_stop) and the  *)
(* per-frame PlaySystem::run over the Rock and Obstacle components.        *)
(*                                                                         *)
(* Numbers.  Every f32 of the program is represented by the integer count  *)
(* of its halves (F(n) is the f32 n).  All values the model reaches are    *)
(* multiples of 0.5 far below 2^23, so the f32 additions, multiplications  *)
(* and comparisons of the program are exact on them and Mul/+/<= on the    *)
(* counts compute what the program computes.  The frame time is counted    *)
(* in ticks of 1/70 s, so that dt = delta_real_seconds * 70 is the tick    *)
(* count as an f32.                                                        *)
(***************************************************************************)
EXTENDS Integers, FiniteSets

\* the f32 value n (an integer) as a count of halves
F(n) == 2 * n

\* f32 product of two values given as counts of halves
Mul(a, b) == (a * b) \div F(1)

\* f32 quotient of a value (count of halves) by the literal 2.
Half(a) == a \div 2

SCREEN_WIDTH == F(500)
SCREEN_HEIGHT == F(500)
OBSTACLE_WIDTH == F(303)
OBSTACLE_HEIGHT == F(302)
ROCK_HEIGHT == F(52)
\* -0.5
GRAVITY == -Half(F(1))

\* rock.set_velocity(7.) on the jump key
JUMP_VELOCITY == F(7)
\* obstacle.x - 5. * dt
SCROLL_SPEED == F(5)

\* Frame times the engine's Time resource delivers, in ticks of 1/70 s: the
\* zero delta of the first frame, ordinary frames, and one long frame.
Deltas == {0, 1, 2, 16}

\* The player stops pressing the jump key once the rock is above this height
\* (keeps the reachable heights finite).
MaxJumpY == 50

VARIABLES phase, alive, transforms, cameras, rocks, obstacles, input, time

vars == <<phase, alive, transforms, cameras, rocks, obstacles, input, time>>

\* Rock::new
RockNew == [y |-> F(100), velocity |-> F(0)]

\* Obstacle::new
ObstacleNew == [x |-> SCREEN_HEIGHT - F(10)]

\* dt = time.delta_real_seconds() * 70.
Dt(delta) == F(delta)

\* RockStep with the ground clamp leaving the integrated velocity in place
RockStep_KeepVelocity(rock, key_is_down, dt) ==
    LET velocity == IF key_is_down THEN JUMP_VELOCITY ELSE rock.velocity
        new_velocity == velocity + Mul(GRAVITY, dt)
        new_y == rock.y + Mul(new_velocity, dt)
    IN  IF new_y <= Half(ROCK_HEIGHT)
        THEN [y |-> Half(ROCK_HEIGHT), velocity |-> new_velocity]
        ELSE [y |-> new_y, velocity |-> new_velocity]

\* RockStep with the jump added to the current velocity instead of replacing it
RockStep_JumpAdds(rock, key_is_down, dt) ==
    LET velocity == IF key_is_down THEN rock.velocity + JUMP_VELOCITY ELSE rock.velocity
        new_velocity == velocity + Mul(GRAVITY, dt)
        new_y == rock.y + Mul(new_velocity, dt)
    IN  IF new_y <= Half(ROCK_HEIGHT)
        THEN [y |-> Half(ROCK_HEIGHT), velocity |-> F(0)]
        ELSE [y |-> new_y, velocity |-> new_velocity]

\* RockStep integrating the position with the velocity of the previous frame
RockStep_ExplicitEuler(rock, key_is_down, dt) ==
    LET velocity == IF key_is_down THEN JUMP_VELOCITY ELSE rock.velocity
        new_velocity == velocity + Mul(GRAVITY, dt)
        new_y == rock.y + Mul(velocity, dt)
    IN  IF new_y <= Half(ROCK_HEIGHT)
        THEN [y |-> Half(ROCK_HEIGHT), velocity |-> F(0)]
        ELSE [y |-> new_y, velocity |-> new_velocity]

\* RockStep with the new height truncated to a whole number
RockStep_WholeY(rock, key_is_down, dt) ==
    LET velocity == IF key_is_down THEN JUMP_VELOCITY ELSE rock.velocity
        new_velocity == velocity + Mul(GRAVITY, dt)
        new_y == F(Half(rock.y + Mul(new_velocity, dt)))
    IN  IF new_y <= Half(ROCK_HEIGHT)
        THEN [y |-> Half(ROCK_HEIGHT), velocity |-> F(0)]
        ELSE [y |-> new_y, velocity |-> new_velocity]

\* RockStep zeroing the velocity on the ground before gravity is added
RockStep_ClampThenGravity(rock, key_is_down, dt) ==
    LET velocity == IF key_is_down THEN JUMP_VELOCITY ELSE rock.velocity
        new_velocity == velocity + Mul(GRAVITY, dt)
        new_y == rock.y + Mul(new_velocity, dt)
    IN  IF new_y <= Half(ROCK_HEIGHT)
        THEN [y |-> Half(ROCK_HEIGHT), velocity |-> F(0) + Mul(GRAVITY, dt)]
        ELSE [y |-> new_y, velocity |-> new_velocity]

\* body of the (transform, rock) loop: the rock after the frame
RockStep(rock, key_is_down, dt) ==
    LET velocity == IF key_is_down THEN JUMP_VELOCITY ELSE rock.velocity
        new_velocity == velocity + Mul(GRAVITY, dt)
        new_y == rock.y + Mul(new_velocity, dt)
    IN  IF new_y <= Half(ROCK_HEIGHT)
        THEN [y |-> Half(ROCK_HEIGHT), velocity |-> F(0)]
        ELSE [y |-> new_y, velocity |-> new_velocity]

\* ObstacleStep wrapping only once the whole obstacle width is past x = 0
ObstacleStep_WrapAtFullWidth(obstacle, dt) ==
    LET new_x == obstacle.x - Mul(SCROLL_SPEED, dt)
    IN  IF new_x <= -OBSTACLE_WIDTH
        THEN [x |-> SCREEN_WIDTH]
        ELSE [x |-> new_x]

\* ObstacleStep carrying the overshoot past the left bound over to the right
ObstacleStep_WrapRemainder(obstacle, dt) ==
    LET new_x == obstacle.x - Mul(SCROLL_SPEED, dt)
    IN  IF new_x <= -Half(OBSTACLE_WIDTH)
        THEN [x |-> SCREEN_WIDTH + (new_x + Half(OBSTACLE_WIDTH))]
        ELSE [x |-> new_x]

\* body of the (transform, obstacle) loop: the obstacle after the frame
ObstacleStep(obstacle, dt) ==
    LET new_x == obstacle.x - Mul(SCROLL_SPEED, dt)
    IN  IF new_x <= -Half(OBSTACLE_WIDTH)
        THEN [x |-> SCREEN_WIDTH]
        ELSE [x |-> new_x]

\* transform.set_translation_y(new_y) in the rock loop
RockTransform(t, rock) == [t EXCEPT !.y = rock.y]

\* transform.set_translation_x(new_x) in the obstacle loop
ObstacleTransform(t, obstacle) == [t EXCEPT !.x = obstacle.x]

\* set_camera: Transform at the screen centre
CameraTransformNew == [x |-> Half(SCREEN_WIDTH), y |-> Half(SCREEN_HEIGHT)]

\* set_rock: rock_transform.set_translation_xyz(SCREEN_WIDTH / 4., 0., 0.)
RockTransformNew == [x |-> Half(Half(SCREEN_WIDTH)), y |-> F(0)]

\* set_obstacle: obstacle_transform.set_translation_xyz(SCREEN_HEIGHT - 10., OBSTACLE_HEIGHT / 2. - 30., 0.)
ObstacleTransformNew == [x |-> SCREEN_HEIGHT - F(10), y |-> Half(OBSTACLE_HEIGHT) - F(30)]

Init ==
    /\ phase = "created"
    /\ alive = {}
    /\ transforms = << >>
    /\ cameras = {}
    /\ rocks = << >>
    /\ obstacles = << >>
    /\ input = FALSE
    /\ time = 0

\* PlayState::on_start: set_camera, set_rock, set_obstacle
on_start ==
    /\ phase = "created"
    /\ phase' = "running"
    /\ alive' = {0, 1, 2}
    /\ cameras' = {0}
    /\ rocks' = [e \in {1} |-> RockNew]
    /\ obstacles' = [e \in {2} |-> ObstacleNew]
    /\ transforms' = [e \in {0, 1, 2} |->
                        IF e = 0 THEN CameraTransformNew
                        ELSE IF e = 1 THEN RockTransformNew
                        ELSE ObstacleTransformNew]
    /\ UNCHANGED <<input, time>>

\* One frame: the engine sets the input and time resources, then the
\* dispatcher calls PlaySystem::run.
run(key_is_down, delta) ==
    /\ phase = "running"
    /\ key_is_down => \A e \in DOMAIN rocks : rocks[e].y <= F(MaxJumpY)
    /\ input' = key_is_down
    /\ time' = delta
    /\ LET dt == Dt(delta)
           afterRocks == [e \in DOMAIN transforms |->
                            IF e \in DOMAIN rocks
                            THEN RockTransform(transforms[e], RockStep(rocks[e], key_is_down, dt))
                            ELSE transforms[e]]
       IN  /\ rocks' = [e \in DOMAIN rocks |-> RockStep(rocks[e], key_is_down, dt)]
           /\ obstacles' = [e \in DOMAIN obstacles |-> ObstacleStep(obstacles[e], dt)]
           /\ transforms' = [e \in DOMAIN transforms |->
                               IF e \in DOMAIN obstacles
                               THEN ObstacleTransform(afterRocks[e], ObstacleStep(obstacles[e], dt))
                               ELSE afterRocks[e]]
    /\ UNCHANGED <<phase, alive, cameras>>

\* on_stop deleting the game objects but not the camera
on_stop_KeepsCamera ==
    /\ phase = "running"
    /\ phase' = "stopped"
    /\ alive' = cameras
    /\ transforms' = [e \in cameras |-> transforms[e]]
    /\ cameras' = cameras
    /\ rocks' = << >>
    /\ obstacles' = << >>
    /\ UNCHANGED <<input, time>>

\* PlayState::on_stop: data.world.delete_all()
on_stop ==
    /\ phase = "running"
    /\ phase' = "stopped"
    /\ alive' = {}
    /\ transforms' = << >>
    /\ cameras' = {}
    /\ rocks' = << >>
    /\ obstacles' = << >>
    /\ UNCHANGED <<input, time>>

Frame == \E key_is_down \in BOOLEAN, delta \in Deltas : run(key_is_down, delta)

Next ==
    \/ on_start
    \/ Frame
    \/ on_stop

Spec == Init /\ [][Next]_vars

\* The engine calls on_start when the application starts and dispatches a
\* frame for as long as the scene runs.
LiveSpec == Init /\ [][Next]_vars /\ WF_vars(on_start) /\ WF_vars(Frame)

----------------------------------------------------------------------------
\* A step of the behaviour that is one PlaySystem::run; input' and time' are
\* the key state and the frame time that run read.
IsFrame == phase = "running" /\ phase' = "running"

GroundY == Half(ROCK_HEIGHT)

AtRest(rock) == rock.y = GroundY /\ rock.velocity = F(0)

\* 6.5, 99.5, -0.5, 27.5, -2.5 as counts of halves
V6_5 == F(7) - Half(F(1))
Y99_5 == F(100) - Half(F(1))
VM0_5 == -Half(F(1))
Y27_5 == F(28) - Half(F(1))
VM2_5 == -(F(3) - Half(F(1)))

\* C1: every rock has y >= ROCK_HEIGHT/2, and a rock at y = ROCK_HEIGHT/2 has
\* velocity 0.
C1_GroundInvariant ==
    \A e \in DOMAIN rocks :
        /\ rocks[e].y >= GroundY
        /\ rocks[e].y = GroundY => rocks[e].velocity = F(0)

\* a frame has put the rock (created at y = 100) on the ground
C1_Witness ==
    /\ phase = "running"
    /\ \E e \in DOMAIN rocks : rocks[e].y = GroundY

\* C2: every obstacle's x lies in [-OBSTACLE_WIDTH/2, SCREEN_WIDTH].
C2_XRange ==
    \A e \in DOMAIN obstacles :
        /\ obstacles[e].x >= -Half(OBSTACLE_WIDTH)
        /\ obstacles[e].x <= SCREEN_WIDTH

\* the obstacle (created at x = 490) has wrapped to the right edge
C2_Witness ==
    /\ phase = "running"
    /\ \E e \in DOMAIN obstacles : obstacles[e].x = SCREEN_WIDTH

\* C3 as claimed: after every frame with the jump key down the stored velocity
\* is 7 + GRAVITY*dt.
C3_JumpVelocityAlways ==
    [][IsFrame /\ input' =>
         \A e \in DOMAIN rocks :
            rocks'[e].velocity = JUMP_VELOCITY + Mul(GRAVITY, Dt(time'))]_vars

\* C3 amended: after a frame with the jump key down the stored velocity is
\* 7 + GRAVITY*dt, whatever the prior velocity, unless the ground clamp fires
\* (y + (7 + GRAVITY*dt)*dt <= ROCK_HEIGHT/2), and then it is 0.
C3_JumpVelocityUnlessClamped ==
    [][IsFrame /\ input' =>
         \A e \in DOMAIN rocks :
            LET v == JUMP_VELOCITY + Mul(GRAVITY, Dt(time'))
            IN  rocks'[e].velocity =
                  IF rocks[e].y + Mul(v, Dt(time')) <= GroundY THEN F(0) ELSE v]_vars

\* a jump frame with dt = 1 has left the velocity 6.5
C3_Witness ==
    /\ phase = "running" /\ input /\ time = 1
    /\ \E e \in DOMAIN rocks : rocks[e].velocity = V6_5

\* C4 as claimed: a frame without jump that starts airborne stores
\* velocity + GRAVITY*dt and y + velocity'*dt.
C4_AirborneAtStart ==
    [][IsFrame /\ ~input' =>
         \A e \in DOMAIN rocks :
            rocks[e].y > GroundY =>
               /\ rocks'[e].velocity = rocks[e].velocity + Mul(GRAVITY, Dt(time'))
               /\ rocks'[e].y = rocks[e].y + Mul(rocks'[e].velocity, Dt(time'))]_vars

\* C4 amended: a frame without jump that starts airborne and whose integrated
\* height y + (velocity + GRAVITY*dt)*dt is still above ROCK_HEIGHT/2 stores
\* exactly velocity + GRAVITY*dt and y + velocity'*dt.
C4_AirborneAfterIntegration ==
    [][IsFrame /\ ~input' =>
         \A e \in DOMAIN rocks :
            LET v == rocks[e].velocity + Mul(GRAVITY, Dt(time'))
            IN  (rocks[e].y > GroundY /\ rocks[e].y + Mul(v, Dt(time')) > GroundY) =>
                   /\ rocks'[e].velocity = v
                   /\ rocks'[e].y = rocks[e].y + Mul(rocks'[e].velocity, Dt(time'))]_vars

\* the frame dt = 1 without jump from y = 100, velocity = 0 has run
C4_Witness ==
    /\ phase = "running" /\ ~input /\ time = 1
    /\ \E e \in DOMAIN rocks : rocks[e].y = Y99_5 /\ rocks[e].velocity = VM0_5

\* C5: a frame without jump from the resting state leaves y and velocity
\* unchanged, for every dt.
C5_RestIsFixedPoint ==
    [][IsFrame /\ ~input' =>
         \A e \in DOMAIN rocks : AtRest(rocks[e]) => rocks'[e] = rocks[e]]_vars

\* A frame without jump has run from the resting state: a frame with dt = 0
\* leaves the height as it was, so the frame that ended here started on the
\* ground, and a rock is on the ground only at rest (C1).
C5_Witness ==
    /\ phase = "running" /\ ~input /\ time = 0
    /\ \E e \in DOMAIN rocks : AtRest(rocks[e])

\* C6: after every frame the obstacle's x is x - 5*dt, unless that is
\* <= -OBSTACLE_WIDTH/2, and then it is exactly SCREEN_WIDTH.
C6_ScrollOrReset ==
    [][IsFrame =>
         \A e \in DOMAIN obstacles :
            LET raw == obstacles[e].x - Mul(F(5), Dt(time'))
            IN  obstacles'[e].x =
                  IF raw <= -Half(OBSTACLE_WIDTH) THEN SCREEN_WIDTH ELSE raw]_vars

\* a frame with dt = 1 has reset the obstacle to 500: of the x the model
\* reaches (multiples of 5) only x = -150 is within 5 of the left bound
C6_Witness ==
    /\ phase = "running" /\ time = 1
    /\ \E e \in DOMAIN obstacles : obstacles[e].x = SCREEN_WIDTH

\* C7 as claimed: from y = 30, velocity = -2, a frame with dt = 1 and no jump
\* ends with y = 26, velocity = 0.
C7_ScenarioClamped ==
    [][IsFrame /\ ~input' /\ time' = 1 =>
         \A e \in DOMAIN rocks :
            (rocks[e].y = F(30) /\ rocks[e].velocity = F(-2)) =>
               (rocks'[e].y = F(26) /\ rocks'[e].velocity = F(0))]_vars

\* C7 amended: from y = 30, velocity = -2, a frame with dt = 1 and no jump
\* ends with y = 27.5, velocity = -2.5 (27.5 > 26: the clamp does not fire).
C7_ScenarioAirborne ==
    [][IsFrame /\ ~input' /\ time' = 1 =>
         \A e \in DOMAIN rocks :
            (rocks[e].y = F(30) /\ rocks[e].velocity = F(-2)) =>
               (rocks'[e].y = Y27_5 /\ rocks'[e].velocity = VM2_5)]_vars

\* the state after that frame: only y = 30, velocity = -2 leads to it with
\* dt = 1 and no jump
C7_Witness ==
    /\ phase = "running" /\ ~input /\ time = 1
    /\ \E e \in DOMAIN rocks : rocks[e].y = Y27_5 /\ rocks[e].velocity = VM2_5

NoEntity ==
    /\ alive = {} /\ cameras = {}
    /\ DOMAIN transforms = {} /\ DOMAIN rocks = {} /\ DOMAIN obstacles = {}

\* C8: the scene goes created -> running -> stopped and nowhere else;
\* on_start leaves exactly one camera, one rock at y = 100 with velocity 0 and
\* one obstacle; while the scene runs there is exactly one of each; after
\* on_stop no entity and no component exists.
C8_Lifecycle ==
    /\ [](phase = "running" =>
            /\ Cardinality(alive) = 3
            /\ Cardinality(cameras) = 1
            /\ Cardinality(DOMAIN rocks) = 1
            /\ Cardinality(DOMAIN obstacles) = 1
            /\ DOMAIN transforms = alive)
    /\ [](phase = "stopped" => NoEntity)
    /\ [][/\ phase' # phase =>
               \/ phase = "created" /\ phase' = "running"
               \/ phase = "running" /\ phase' = "stopped"
          /\ (phase = "created" /\ phase' = "running") =>
               \A e \in DOMAIN rocks' : rocks'[e] = [y |-> F(100), velocity |-> F(0)]]_vars

\* on_stop has run after at least one frame
C8_Witness ==
    /\ phase = "stopped" /\ time > 0 /\ alive = {}

\* C9: the rock's transform y equals its y and the obstacle's transform x
\* equals its x in every state of the running scene.
C9_RenderMirrorsComponents ==
    /\ \A e \in DOMAIN rocks : transforms[e].y = rocks[e].y
    /\ \A e \in DOMAIN obstacles : transforms[e].x = obstacles[e].x

\* the last frame had no jump and dt > 0
Quiet == phase = "running" /\ ~input /\ time > 0

\* C10: if from some frame on the scene keeps running with no jump and
\* dt > 0, the rock eventually rests (y = ROCK_HEIGHT/2, velocity = 0) and
\* stays there; and in a frame without jump that does not end on the ground
\* the velocity does not increase.
C10_SettlesWithoutJump ==
    /\ [][IsFrame /\ ~input' =>
            \A e \in DOMAIN rocks :
               rocks'[e].y > GroundY => rocks'[e].velocity <= rocks[e].velocity]_vars
    /\ (<>[]Quiet => <>[](\A e \in DOMAIN rocks : AtRest(rocks[e])))

\* the rock came to rest in a frame without jump and with dt > 0
C10_Witness ==
    /\ Quiet /\ time = 2
    /\ \E e \in DOMAIN rocks : AtRest(rocks[e])

====
